---- MODULE Spec2Model ----
(***************************************************************************)
(* A model of rgit's serving core: the moka-backed caches of git.rs (Git), *)
(* the paged revision walk (Git::get_commits), the metadata snapshot slot  *)
(* (Git::fetch_repository_metadata), the schema gate (open_db) and the     *)
(* indexer worker / wake-up coordinator (run_indexer) of main.rs.          *)
(***************************************************************************)
EXTENDS Integers, Sequences, FiniteSets, Bags, TLC

VARIABLES
    now,         \* wall clock, in seconds
    cache,       \* Git.commits / Git.readme_cache: accessor -> key -> entry
    inflight,    \* moka's per-key waiter registry: accessor -> key -> leading caller (0: none)
    callers,     \* the request tasks calling the cached accessors
    objects,     \* repository -> commit ids present in its object database
    readme,      \* repository -> content of README.md in the head tree
    head,        \* repository -> the commit HEAD points to ("unborn": none yet)
    history,     \* the commits reachable from the walked ref, in walk order
    gc,          \* the last get_commits call: its arguments and what it returned
    pages,       \* the pages a chain of get_commits calls has returned so far
    probe,       \* the last get_commits call made on its own, at a given offset
    store,       \* the sled database: key -> value ("absent": no such key)
    store0,      \* the store as the running process found it at startup
    origin,      \* the store as the first run of all found it
    gate,        \* where open_db stands
    queue,       \* wake-up messages buffered in the mpsc channel
    worker,      \* where the indexer thread stands
    coord,       \* where the wake-up task stands
    refresh,     \* the configured RefreshInterval
    idx,         \* counters over the indexer's run
    repository_metadata,  \* Git.repository_metadata, the ArcSwapOption slot
    fetchers,    \* the tasks calling fetch_repository_metadata
    scans,       \* directory scans run so far
    fs,          \* the directories below the scan root: path -> what is there
    scanned      \* the outcome of the directory scan

cacheVars == <<now, cache, inflight, callers, objects, readme, head>>
walkVars == <<history, gc, pages, probe>>
gateVars == <<store, store0, origin, gate>>
idxVars == <<queue, worker, coord, refresh, idx>>
metaVars == <<repository_metadata, fetchers, scans, fs, scanned>>

vars == <<now, cache, inflight, callers, objects, readme, head, history, gc, pages, probe,
          store, store0, origin, gate, queue, worker, coord, refresh, idx,
          repository_metadata, fetchers, scans, fs, scanned>>

----------------------------------------------------------------------------
(* Bounds of the model *)

NumCallers == 2
MaxTime == 15
MaxCommits == 203
NumFetchers == 3
MaxWakes == 12
MaxOffset == 3

(* Program constants *)

TTL == 10
AMOUNT == 200
WakeupCapacity == 10

----------------------------------------------------------------------------
(* The caches of Git (git.rs:17-42) *)

Callers == 1..NumCallers
Repos == {"demo", "other"}
Oids == {"c1"}
IdStrings == Oids \cup {"zz"}
Texts == {"t1", "t2"}
ReadmeContents == Texts \cup {"absent", "binary"}
Keys == Repos \cup Oids
\* The repository the modelled requests browse README.md of.
BrowsedRepos == {"demo"}
Accessors == {"commits", "readme_cache"}

TickStep == TTL \div 2

NoEntry == [val |-> "none", ts |-> -1]
NoRes == [kind |-> "none", val |-> "none"]
IdleCaller ==
    [pc |-> "idle", acc |-> "none", repo |-> "none", id |-> "none", key |-> "none",
     res |-> NoRes, seen |-> NoEntry, joined |-> 0, ran |-> 0]

\* Oid::from_str(commit): Ok for a hex identifier, Err otherwise.
OidFromStr(s) ==
    IF s \in Oids THEN [ok |-> TRUE, oid |-> s] ELSE [ok |-> FALSE, oid |-> "none"]

\* A cache built without time_to_live: nothing ever expires.
IsExpiredNever(e) == FALSE

\* moka's expiry test: an entry is expired once ts + ttl <= now.
IsExpired(e) == e.ts + TTL <= now

\* A lookup hits when the key holds an entry that has not expired.
Live(acc, k) == cache[acc][k] # NoEntry /\ ~IsExpired(cache[acc][k])

\* The blocking closure of get_commit: open the repository, find the commit.
\* Every failure is an unwrap(), i.e. a panic of the task.
FindCommit(repo, oid) ==
    IF oid \in objects[repo]
    THEN [kind |-> "ok", val |-> oid]
    ELSE [kind |-> "panic", val |-> "none"]

\* The blocking closure of get_readme: head -> commit -> tree -> README.md ->
\* blob -> String::from_utf8, each step unwrap()ed.
ReadReadme(repo) ==
    IF readme[repo] \in Texts
    THEN [kind |-> "ok", val |-> readme[repo]]
    ELSE [kind |-> "panic", val |-> "none"]

\* The init future handed to get_with by each accessor.
InitFuture(acc, repo, k) ==
    IF acc = "commits" THEN FindCommit(repo, k) ELSE ReadReadme(repo)

\* Cache::get_with, up to the point where the caller has a value, waits for
\* the in-flight init future of the key, or starts evaluating its own.
Lookup(c, rec) ==
    LET acc == rec.acc
        k == rec.key
    IN  IF Live(acc, k)
        THEN /\ callers' = [callers EXCEPT ![c] =
                    [rec EXCEPT !.pc = "done",
                                !.res = [kind |-> "ok", val |-> cache[acc][k].val]]]
             /\ UNCHANGED inflight
        ELSE IF inflight[acc][k] # 0
        THEN /\ callers' = [callers EXCEPT ![c] =
                    [rec EXCEPT !.pc = "wait",
                                !.joined = IF rec.joined = 0 THEN inflight[acc][k]
                                           ELSE rec.joined]]
             /\ UNCHANGED inflight
        ELSE /\ callers' = [callers EXCEPT ![c] = [rec EXCEPT !.pc = "lead"]]
             /\ inflight' = [inflight EXCEPT ![acc][k] = c]

NewCall(acc, repo, id, k) ==
    [IdleCaller EXCEPT !.acc = acc, !.repo = repo, !.id = id, !.key = k,
                       !.seen = cache[acc][k]]

\* Git::get_commit (git.rs:45-60): parse the id, then get_with on the oid.
GetCommit(c, repo, id) ==
    /\ callers[c].pc \in {"idle", "done"}
    /\ LET parsed == OidFromStr(id)
       IN  IF ~parsed.ok
           THEN /\ callers' = [callers EXCEPT ![c] =
                       [IdleCaller EXCEPT !.pc = "done", !.acc = "commits",
                                          !.repo = repo, !.id = id,
                                          !.res = [kind |-> "panic", val |-> "none"]]]
                /\ UNCHANGED inflight
           ELSE Lookup(c, NewCall("commits", repo, id, parsed.oid))
    /\ UNCHANGED <<now, cache, objects, readme, head, walkVars, gateVars, idxVars, metaVars>>

\* Git::get_readme (git.rs:99-121): get_with on the repository path.
GetReadme(c, repo) ==
    /\ callers[c].pc \in {"idle", "done"}
    /\ Lookup(c, NewCall("readme_cache", repo, "none", repo))
    /\ UNCHANGED <<now, cache, objects, readme, head, walkVars, gateVars, idxVars, metaVars>>

\* A registry that loses its waiters: nobody is woken when the leader ends.
NoWaiters(acc, k) == {}

\* The callers parked on the in-flight init future of key k.
Waiters(acc, k) ==
    {w \in Callers : callers[w].pc = "wait" /\ callers[w].acc = acc /\ callers[w].key = k}

\* The leader's init future resolves: spawn_blocking runs the closure.  A
\* value is inserted with the current time and handed to every waiter; a
\* panic unwinds the leader only, and the waiters restart get_with.
Resolve(c) ==
    /\ callers[c].pc = "lead"
    /\ LET acc == callers[c].acc
           k == callers[c].key
           r == InitFuture(acc, callers[c].repo, k)
       IN  /\ inflight' = [inflight EXCEPT ![acc][k] = 0]
           /\ IF r.kind = "ok"
              THEN /\ cache' = [cache EXCEPT ![acc][k] = [val |-> r.val, ts |-> now]]
                   /\ callers' = [w \in Callers |->
                         IF w = c THEN [callers[w] EXCEPT !.pc = "done", !.res = r, !.ran = 1]
                         ELSE IF w \in Waiters(acc, k)
                              THEN [callers[w] EXCEPT !.pc = "done", !.res = r]
                              ELSE callers[w]]
              ELSE /\ cache' = cache
                   /\ callers' = [w \in Callers |->
                         IF w = c THEN [callers[w] EXCEPT !.pc = "done", !.res = r, !.ran = 1]
                         ELSE IF w \in Waiters(acc, k)
                              THEN [callers[w] EXCEPT !.pc = "retry"]
                              ELSE callers[w]]
    /\ UNCHANGED <<now, objects, readme, head, walkVars, gateVars, idxVars, metaVars>>

\* A waiter whose leader panicked goes round get_with's loop again.
Retry(c) ==
    /\ callers[c].pc = "retry"
    /\ Lookup(c, callers[c])
    /\ UNCHANGED <<now, cache, objects, readme, head, walkVars, gateVars, idxVars, metaVars>>

Tick ==
    /\ now + TickStep <= MaxTime
    /\ now' = now + TickStep
    /\ UNCHANGED <<cache, inflight, callers, objects, readme, head, walkVars, gateVars, idxVars, metaVars>>

\* The repositories change underneath the server: pushes, prunes.
SetReadme(repo, v) ==
    /\ readme[repo] # v
    /\ readme' = [readme EXCEPT ![repo] = v]
    /\ UNCHANGED <<now, cache, inflight, callers, objects, head, walkVars, gateVars, idxVars, metaVars>>

AddObject(repo, oid) ==
    /\ oid \notin objects[repo]
    /\ objects' = [objects EXCEPT ![repo] = @ \cup {oid}]
    /\ UNCHANGED <<now, cache, inflight, callers, readme, head, walkVars, gateVars, idxVars, metaVars>>

\* The commits HEAD can point to.
HeadCommits == {"c1", "c2"}

\* An accessor that answers from the commit cache whenever it holds anything.
LatestCommitCached(repo) ==
    LET held == {k \in Oids : cache["commits"][k] # NoEntry}
    IN  IF held # {}
        THEN [kind |-> "ok", val |-> cache["commits"][CHOOSE k \in held : TRUE].val]
        ELSE IF head[repo] = "unborn"
        THEN [kind |-> "panic", val |-> "none"]
        ELSE [kind |-> "ok", val |-> head[repo]]

\* The blocking closure of get_latest_commit: head().unwrap(), then
\* peel_to_commit().unwrap().
LatestCommit(repo) ==
    IF head[repo] = "unborn"
    THEN [kind |-> "panic", val |-> "none"]
    ELSE [kind |-> "ok", val |-> head[repo]]

\* Git::get_latest_commit (git.rs:123-133): the closure is handed to
\* spawn_blocking, and the task awaits it.
GetLatestCommit(c, repo) ==
    /\ callers[c].pc \in {"idle", "done"}
    /\ callers' = [callers EXCEPT ![c] =
            [IdleCaller EXCEPT !.pc = "blocking", !.acc = "latest", !.repo = repo]]
    /\ UNCHANGED <<now, cache, inflight, objects, readme, head, walkVars, gateVars, idxVars, metaVars>>

\* The blocking pool runs the closure, and the task has its answer.
LatestResolve(c) ==
    /\ callers[c].pc = "blocking"
    /\ callers' = [callers EXCEPT ![c] =
            [@ EXCEPT !.pc = "done", !.res = LatestCommit(callers[c].repo), !.ran = 1]]
    /\ UNCHANGED <<now, cache, inflight, objects, readme, head, walkVars, gateVars, idxVars, metaVars>>

\* A push moves HEAD's branch to another commit.
MoveHead(repo, h) ==
    /\ head[repo] # h
    /\ head' = [head EXCEPT ![repo] = h]
    /\ UNCHANGED <<now, cache, inflight, callers, objects, readme, walkVars, gateVars, idxVars, metaVars>>

----------------------------------------------------------------------------
(* The paged revision walk, Git::get_commits (git.rs:156-192) *)

None == -1
Branches == {"main", "gone"}

\* revs.skip(offset)
Skip(s, n) == IF n >= Len(s) THEN <<>> ELSE SubSeq(s, n + 1, Len(s))

\* .take(n)
Take(s, n) == IF n >= Len(s) THEN s ELSE SubSeq(s, 1, n)

\* commits.pop(): the vector without its last element, and whether there was one.
Pop(s) ==
    IF s = <<>> THEN [rest |-> <<>>, some |-> FALSE]
    ELSE [rest |-> SubSeq(s, 1, Len(s) - 1), some |-> TRUE]

\* A walk that reports an offset after every page, the last one included.
NextOffsetAlways(taken, offset) == offset + Len(Pop(taken).rest)

\* commits.pop().is_some().then(|| offset + commits.len())
NextOffset(taken, offset) ==
    IF Pop(taken).some THEN offset + Len(Pop(taken).rest) ELSE None

\* push_ref("refs/heads/<branch>") / push_head(): the ref must exist.  A
\* repository without commits has no branch and an unborn HEAD.
RefResolves(branch) ==
    IF branch = "HEAD" THEN Len(history) > 0
    ELSE branch = "main" /\ Len(history) > 0

\* The blocking closure of get_commits: what it returns, or a panic.
WalkPage(branch, offset) ==
    IF ~RefResolves(branch)
    THEN [pc |-> "panicked", branch |-> branch, offset |-> offset,
          page |-> <<>>, next |-> None]
    ELSE LET taken == Take(Skip(history, offset), AMOUNT + 1)
         IN  [pc |-> "returned", branch |-> branch, offset |-> offset,
              page |-> Pop(taken).rest, next |-> NextOffset(taken, offset)]

IdleWalk == [pc |-> "idle", branch |-> "none", offset |-> 0, page |-> <<>>, next |-> None]

\* A first call, at offset 0: the chain of pages starts again.
GetCommitsFirst(branch) ==
    /\ gc' = WalkPage(branch, 0)
    /\ pages' = gc'.page
    /\ gc' # gc
    /\ UNCHANGED <<history, probe, cacheVars, gateVars, idxVars, metaVars>>

\* The follow-up call: the same ref, at the offset the last call reported.
GetCommitsNext ==
    /\ gc.pc = "returned"
    /\ gc.next # None
    /\ gc' = WalkPage(gc.branch, gc.next)
    /\ pages' = pages \o gc'.page
    /\ UNCHANGED <<history, probe, cacheVars, gateVars, idxVars, metaVars>>

\* The offsets a caller passes on its own: the query string's offset parameter.
Offsets == 0..MaxOffset

\* A call at an offset of the caller's choosing, outside any chain.
GetCommitsAt(branch, offset) ==
    /\ probe' = WalkPage(branch, offset)
    /\ probe' # probe
    /\ UNCHANGED <<history, gc, pages, cacheVars, gateVars, idxVars, metaVars>>

WalkInit ==
    /\ \E m \in 0..MaxCommits : history = [i \in 1..m |-> i]
    /\ gc = IdleWalk
    /\ pages = <<>>
    /\ probe = IdleWalk

WalkIdle ==
    /\ history = <<>>
    /\ gc = IdleWalk
    /\ pages = <<>>
    /\ probe = IdleWalk

----------------------------------------------------------------------------
(* The schema gate, open_db (main.rs:201-226) *)

SchemaKey == "schema_version"
DataKeys == {"repository", "commit"}
StoreKeys == {SchemaKey} \cup DataKeys
SCHEMA_VERSION == "v2"
Versions == {"v1", "v2"}
DataValues == {"d1", "d2"}

EmptyStore == [k \in StoreKeys |-> "absent"]

\* A gate that resets on a missing marker only.
NeedsSchemaRegenIfAbsent(marker) == marker = "absent"

\* A gate that resets on every start.
NeedsSchemaRegenAlways(marker) == TRUE

\* needs_schema_regen (main.rs:208-212), as a flag: Some(_) or None.
NeedsSchemaRegen(marker) ==
    IF marker = "absent" THEN TRUE
    ELSE IF marker # SCHEMA_VERSION THEN TRUE
    ELSE FALSE

\* db.get(schema_version) and the match on it.
GateRead ==
    /\ gate = "start"
    /\ gate' = IF NeedsSchemaRegen(store[SchemaKey]) THEN "regen" ELSE "open"
    /\ UNCHANGED <<store, store0, origin, cacheVars, walkVars, idxVars, metaVars>>

\* A clear that is not waited for: the marker is written while keys remain.
GateClearedEarly ==
    /\ gate = "regen"
    /\ gate' = "cleared"
    /\ UNCHANGED <<store, store0, origin, cacheVars, walkVars, idxVars, metaVars>>

\* db.clear(): sled removes the keys one after the other.
GateClearKey(k) ==
    /\ gate = "regen"
    /\ store[k] # "absent"
    /\ store' = [store EXCEPT ![k] = "absent"]
    /\ UNCHANGED <<store0, gate, origin, cacheVars, walkVars, idxVars, metaVars>>

GateCleared ==
    /\ gate = "regen"
    /\ store = EmptyStore
    /\ gate' = "cleared"
    /\ UNCHANGED <<store, store0, origin, cacheVars, walkVars, idxVars, metaVars>>

\* db.insert(schema_version, SCHEMA_VERSION), then Ok(db).
GateInsert ==
    /\ gate = "cleared"
    /\ store' = [store EXCEPT ![SchemaKey] = SCHEMA_VERSION]
    /\ gate' = "open"
    /\ UNCHANGED <<store0, origin, cacheVars, walkVars, idxVars, metaVars>>

\* Any of the three database calls may fail: the ? returns the error at once.
GateError ==
    /\ gate \in {"start", "regen", "cleared"}
    /\ gate' = "failed"
    /\ UNCHANGED <<store, store0, origin, cacheVars, walkVars, idxVars, metaVars>>

\* The process ends, at any point, and is started again on the same store.
Restart ==
    /\ gate # "start"
    /\ gate' = "start"
    /\ store0' = store
    /\ UNCHANGED <<store, origin, cacheVars, walkVars, idxVars, metaVars>>

GateInit ==
    /\ store \in [StoreKeys -> {"absent"} \cup Versions \cup DataValues]
    /\ store[SchemaKey] \in {"absent"} \cup Versions
    /\ \A k \in DataKeys : store[k] \in {"absent"} \cup DataValues
    /\ store0 = store
    /\ origin = store
    /\ gate = "start"

GateIdle ==
    /\ store = EmptyStore
    /\ store0 = EmptyStore
    /\ origin = EmptyStore
    /\ gate = "start"

----------------------------------------------------------------------------
(* The indexer, run_indexer (main.rs:228-268) *)

\* A channel whose sender never learns that the receiver is gone.
ReceiverNeverDropped == FALSE

\* The receiving half is gone once the indexer thread has ended.
ReceiverDropped == worker \in {"stopped", "dead"}

\* A receiver that is polled while indexer::run is still running.
WorkerAtRecvOrRunning == worker \in {"waiting", "running"}

\* The thread is at blocking_recv().
WorkerAtRecv == worker = "waiting"

\* A receiver that drains the channel on every wake-up.
DequeueAll(q) == 0

\* blocking_recv() takes one message off the channel.
Dequeue(q) == q - 1

\* An unbounded channel: a send never has to wait.
HasRoomAlways(q) == TRUE

\* mpsc::channel(10): a send completes only while fewer than 10 are buffered.
HasRoom(q) == q < WakeupCapacity

\* The thread enters the loop body: crate::database::indexer::run begins.
StartRebuild ==
    /\ worker = "start"
    /\ worker' = "running"
    /\ idx' = [idx EXCEPT !.started = @ + 1, !.active = @ + 1]
    /\ UNCHANGED <<queue, coord, refresh, cacheVars, walkVars, gateVars, metaVars>>

\* indexer::run returns.
FinishRebuild ==
    /\ worker = "running"
    /\ worker' = "waiting"
    /\ idx' = [idx EXCEPT !.finished = @ + 1, !.active = @ - 1]
    /\ UNCHANGED <<queue, coord, refresh, cacheVars, walkVars, gateVars, metaVars>>

\* indexer::run panics: the thread unwinds and drops the receiver, and the
\* messages still buffered with it.
PanicRebuild ==
    /\ worker = "running"
    /\ worker' = "dead"
    /\ queue' = 0
    /\ idx' = [idx EXCEPT !.active = @ - 1]
    /\ UNCHANGED <<coord, refresh, cacheVars, walkVars, gateVars, metaVars>>

\* blocking_recv() returns Some(()): round the loop again.
Recv ==
    /\ WorkerAtRecv
    /\ queue > 0
    /\ queue' = Dequeue(queue)
    /\ worker' = "start"
    /\ UNCHANGED <<coord, refresh, idx, cacheVars, walkVars, gateVars, metaVars>>

\* blocking_recv() returns None, the channel being empty and the sender
\* dropped: break.
RecvNone ==
    /\ WorkerAtRecv
    /\ queue = 0
    /\ coord = "gone"
    /\ worker' = "stopped"
    /\ UNCHANGED <<queue, coord, refresh, idx, cacheVars, walkVars, gateVars, metaVars>>

\* select!: the SIGHUP stream yields.
Sighup ==
    /\ coord = "racing"
    /\ idx.wakes < MaxWakes
    /\ coord' = "sending"
    /\ idx' = [idx EXCEPT !.wakes = @ + 1]
    /\ UNCHANGED <<queue, worker, refresh, cacheVars, walkVars, gateVars, metaVars>>

\* select!: the sleeper completes; with RefreshInterval::Never it never does.
TimerFires ==
    /\ coord = "racing"
    /\ refresh = "duration"
    /\ idx.wakes < MaxWakes
    /\ coord' = "sending"
    /\ idx' = [idx EXCEPT !.wakes = @ + 1]
    /\ UNCHANGED <<queue, worker, refresh, cacheVars, walkVars, gateVars, metaVars>>

\* indexer_wakeup_send.send(()).await: an error once the receiver is gone
\* (logged, and the loop goes on), a buffered message when there is room;
\* with the channel full the task stays suspended here.
Send ==
    /\ coord = "sending"
    /\ IF ReceiverDropped
       THEN /\ idx' = [idx EXCEPT !.errors = @ + 1]
            /\ UNCHANGED queue
       ELSE /\ HasRoom(queue)
            /\ queue' = queue + 1
            /\ idx' = [idx EXCEPT !.enqueued = @ + 1]
    /\ coord' = "racing"
    /\ UNCHANGED <<worker, refresh, cacheVars, walkVars, gateVars, metaVars>>

\* The runtime shuts down (main returns): the wake-up task is dropped, and
\* the sender with it.
Shutdown ==
    /\ coord # "gone"
    /\ coord' = "gone"
    /\ UNCHANGED <<queue, worker, refresh, idx, cacheVars, walkVars, gateVars, metaVars>>

Worker == StartRebuild \/ FinishRebuild \/ PanicRebuild \/ Recv \/ RecvNone

\* A thread whose loop begins with blocking_recv().
IdxStartWaiting ==
    /\ queue = 0
    /\ worker = "waiting"
    /\ coord = "racing"
    /\ idx = [wakes |-> 0, enqueued |-> 0, errors |-> 0,
              started |-> 0, finished |-> 0, active |-> 0]

IdxStart ==
    /\ queue = 0
    /\ worker = "start"
    /\ coord = "racing"
    /\ idx = [wakes |-> 0, enqueued |-> 0, errors |-> 0,
              started |-> 0, finished |-> 0, active |-> 0]

IdxInit ==
    /\ IdxStart
    /\ refresh \in {"never", "duration"}

IdxIdle ==
    /\ IdxStart
    /\ refresh = "never"

----------------------------------------------------------------------------
(* The metadata snapshot slot, Git::fetch_repository_metadata (git.rs:135-154) *)

Fetchers == 1..NumFetchers
IdleFetcher == [pc |-> "idle", snap |-> 0]

\* self.repository_metadata.load(): the snapshot if there is one, else on
\* to the scan.
FetchLoad(f) ==
    /\ fetchers[f].pc \in {"idle", "done"}
    /\ fetchers' = [fetchers EXCEPT ![f] =
            IF repository_metadata # 0
            THEN [pc |-> "done", snap |-> repository_metadata]
            ELSE [pc |-> "scanning", snap |-> 0]]
    /\ fetchers' # fetchers
    /\ UNCHANGED <<repository_metadata, scans, fs, scanned, cacheVars, walkVars, gateVars, idxVars>>

\* spawn_blocking: fetch_repository_metadata_impl builds a new list.
FetchScan(f) ==
    /\ fetchers[f].pc = "scanning"
    /\ scans' = scans + 1
    /\ fetchers' = [fetchers EXCEPT ![f] = [pc |-> "scanned", snap |-> scans + 1]]
    /\ UNCHANGED <<repository_metadata, fs, scanned, cacheVars, walkVars, gateVars, idxVars>>

\* self.repository_metadata.store(Some(repos.clone())); repos
FetchStore(f) ==
    /\ fetchers[f].pc = "scanned"
    /\ repository_metadata' = fetchers[f].snap
    /\ fetchers' = [fetchers EXCEPT ![f].pc = "done"]
    /\ UNCHANGED <<scans, fs, scanned, cacheVars, walkVars, gateVars, idxVars>>

----------------------------------------------------------------------------
(* The directory scan, fetch_repository_metadata_impl (git.rs:320-369) *)

\* Paths are sequences of names, relative to the scan root <<>>.
DirNames == {"a", "b"}
TopDirs == {<<n>> : n \in DirNames}
SubDirs == {<<n, m>> : n \in DirNames, m \in DirNames}
Dirs == TopDirs \cup SubDirs
Root == <<>>

\* What a path holds: nothing, a file, a plain directory, a bare repository,
\* a directory that cannot be listed, a repository whose config cannot be
\* opened.
EntryKinds == {"none", "file", "ns", "repo", "locked", "badrepo"}

ParentOf(p) == SubSeq(p, 1, Len(p) - 1)

Trees ==
    {t \in [Dirs -> EntryKinds] :
        \A p \in SubDirs : t[ParentOf(p)] \in {"none", "file"} => t[p] = "none"}

ScanPanicked == [ok |-> FALSE, repos |-> EmptyBag]
IdleScan == [pc |-> "idle", repos |-> EmptyBag]

\* read_dir(current) ... .filter(|path| path.is_dir())
DirsIn(current) ==
    {d \in Dirs : /\ Len(d) = Len(current) + 1
                  /\ ParentOf(d) = current
                  /\ fs[d] \notin {"none", "file"}}

\* read_dir(current).unwrap() succeeds.
CanList(current) == current = Root \/ fs[current] # "locked"

\* Repository::open_bare(&dir) is Ok.
OpenBare(dir) == fs[dir] \in {"repo", "badrepo"}

\* Some(current.strip_prefix(start)).filter(|v| !v.is_empty())
RepoPath(start, current) ==
    LET rel == SubSeq(current, Len(start) + 1, Len(current))
    IN  IF rel = <<>> THEN [some |-> FALSE, path |-> <<>>]
        ELSE [some |-> TRUE, path |-> rel]

\* dir.components().last()
NameOf(dir) == dir[Len(dir)]

RECURSIVE ScanImpl(_, _, _)
RECURSIVE ScanEntries(_, _, _, _)

\* The for loop over the entries left to visit.  repos is a bag of (group
\* key, name) entries: the order read_dir yields the entries in bears on
\* neither the bag nor on whether some unwrap() panics.
ScanEntries(start, current, todo, repos) ==
    IF todo = {} THEN [ok |-> TRUE, repos |-> repos]
    ELSE LET dir == CHOOSE d \in todo : TRUE
         IN  IF OpenBare(dir)
             THEN IF fs[dir] = "badrepo"
                  THEN ScanPanicked
                  ELSE ScanEntries(start, current, todo \ {dir},
                           repos (+) SetToBag({[key |-> RepoPath(start, current),
                                                name |-> NameOf(dir)]}))
             ELSE LET below == ScanImpl(start, dir, repos)
                  IN  IF below.ok
                      THEN ScanEntries(start, current, todo \ {dir}, below.repos)
                      ELSE ScanPanicked

\* fetch_repository_metadata_impl(start, current, repos)
ScanImpl(start, current, repos) ==
    IF CanList(current)
    THEN ScanEntries(start, current, DirsIn(current), repos)
    ELSE ScanPanicked

\* The closure of fetch_repository_metadata (git.rs:142-148): a scan from
\* the root into an empty list; a panic unwinds the task.
Scan ==
    /\ scanned.pc = "idle"
    /\ LET r == ScanImpl(Root, Root, EmptyBag)
       IN  scanned' = IF r.ok THEN [pc |-> "done", repos |-> r.repos]
                      ELSE [pc |-> "panicked", repos |-> EmptyBag]
    /\ UNCHANGED <<repository_metadata, fetchers, scans, fs, cacheVars, walkVars, gateVars, idxVars>>

ScanIdle ==
    /\ fs = [d \in Dirs |-> "none"]
    /\ scanned = IdleScan

MetaInit ==
    /\ repository_metadata = 0
    /\ fetchers = [f \in Fetchers |-> IdleFetcher]
    /\ scans = 0
    /\ ScanIdle

----------------------------------------------------------------------------
(* Specifications, one per component *)

CacheInit ==
    /\ now = 0
    /\ cache = [a \in Accessors |-> [k \in Keys |-> NoEntry]]
    /\ inflight = [a \in Accessors |-> [k \in Keys |-> 0]]
    /\ callers = [c \in Callers |-> IdleCaller]
    /\ head = [r \in Repos |-> "unborn"]

CacheIdle ==
    /\ CacheInit
    /\ objects = [r \in Repos |-> {}]
    /\ readme = [r \in Repos |-> "absent"]

InitReadme ==
    /\ CacheInit
    /\ objects = [r \in Repos |-> {}]
    /\ readme = [r \in Repos |-> "t1"]
    /\ WalkIdle /\ GateIdle /\ IdxIdle /\ MetaInit

NextReadme ==
    \/ \E c \in Callers, r \in BrowsedRepos : GetReadme(c, r)
    \/ \E c \in Callers : Resolve(c)
    \/ \E c \in Callers : Retry(c)
    \/ Tick
    \/ \E r \in BrowsedRepos, v \in ReadmeContents : SetReadme(r, v)

SpecReadme == InitReadme /\ [][NextReadme]_vars

InitCommit ==
    /\ CacheInit
    /\ objects = [r \in Repos |-> IF r = "demo" THEN {"c1"} ELSE {}]
    /\ readme = [r \in Repos |-> "absent"]
    /\ WalkIdle /\ GateIdle /\ IdxIdle /\ MetaInit

NextCommit ==
    \/ \E c \in Callers, r \in Repos, s \in IdStrings : GetCommit(c, r, s)
    \/ \E c \in Callers : Resolve(c)
    \/ \E c \in Callers : Retry(c)
    \/ Tick
    \/ \E r \in Repos, o \in Oids : AddObject(r, o)

SpecCommit == InitCommit /\ [][NextCommit]_vars

InitLatest == InitCommit

NextLatest ==
    \/ \E c \in Callers, r \in BrowsedRepos : GetLatestCommit(c, r)
    \/ \E c \in Callers : LatestResolve(c)
    \/ \E r \in BrowsedRepos, h \in HeadCommits : MoveHead(r, h)
    \/ \E c \in Callers, r \in BrowsedRepos, o \in Oids : GetCommit(c, r, o)
    \/ \E c \in Callers : Resolve(c)
    \/ Tick

SpecLatest == InitLatest /\ [][NextLatest]_vars

InitWalk == WalkInit /\ CacheIdle /\ GateIdle /\ IdxIdle /\ MetaInit

NextWalk ==
    \/ \E b \in Branches \cup {"HEAD"} : GetCommitsFirst(b)
    \/ GetCommitsNext
    \/ \E b \in Branches \cup {"HEAD"}, o \in Offsets : GetCommitsAt(b, o)

SpecWalk == InitWalk /\ [][NextWalk]_vars

InitGate == GateInit /\ CacheIdle /\ WalkIdle /\ IdxIdle /\ MetaInit

NextGate ==
    \/ GateRead
    \/ \E k \in StoreKeys : GateClearKey(k)
    \/ GateCleared
    \/ GateInsert
    \/ GateError
    \/ Restart

SpecGate == InitGate /\ [][NextGate]_vars

InitIndexer == IdxInit /\ CacheIdle /\ WalkIdle /\ GateIdle /\ MetaInit

NextIndexer ==
    \/ StartRebuild
    \/ FinishRebuild
    \/ PanicRebuild
    \/ Recv
    \/ RecvNone
    \/ Sighup
    \/ TimerFires
    \/ Send
    \/ Shutdown

SpecIndexer == InitIndexer /\ [][NextIndexer]_vars

\* The indexer thread is an OS thread of its own: it keeps running.
SpecIndexerFair == SpecIndexer /\ WF_vars(Worker)

InitMeta == MetaInit /\ CacheIdle /\ WalkIdle /\ GateIdle /\ IdxIdle

NextMeta ==
    \/ \E f \in Fetchers : FetchLoad(f)
    \/ \E f \in Fetchers : FetchScan(f)
    \/ \E f \in Fetchers : FetchStore(f)

SpecMeta == InitMeta /\ [][NextMeta]_vars

InitScan ==
    /\ fs \in Trees
    /\ scanned = IdleScan
    /\ repository_metadata = 0
    /\ fetchers = [f \in Fetchers |-> IdleFetcher]
    /\ scans = 0
    /\ CacheIdle /\ WalkIdle /\ GateIdle /\ IdxIdle

NextScan == Scan

SpecScan == InitScan /\ [][NextScan]_vars

----------------------------------------------------------------------------
(* Properties of the caches *)

\* The step in which caller c's call of an accessor begins.
CallStep(c) == callers[c].pc \in {"idle", "done"} /\ callers'[c] # callers[c]

\* The step in which caller c, leading or waiting, gets its outcome.
OutcomeStep(c) == callers[c].pc \in {"lead", "wait"} /\ callers'[c].pc = "done"

\* C1: callers that wait on the in-flight computation of their key all get
\* the outcome of that one computation, in the step in which it ends: none
\* of them is left to run the computation again.
C1_SingleFlight ==
    [][\A c \in Callers :
          (callers[c].pc = "lead" /\ callers'[c].pc = "done")
          => \A w \in Waiters(callers[c].acc, callers[c].key) :
                /\ callers'[w].pc = "done"
                /\ callers'[w].res = callers'[c].res
                /\ callers'[w].ran = 0]_vars

\* Single flight as far as the code provides it: when the leader's
\* computation yields a value, every waiter gets that value and ran nothing.
SingleFlightOnValue ==
    [][\A c \in Callers :
          (callers[c].pc = "lead" /\ callers'[c].pc = "done"
              /\ callers'[c].res.kind = "ok")
          => \A w \in Waiters(callers[c].acc, callers[c].key) :
                /\ callers'[w].pc = "done"
                /\ callers'[w].res = callers'[c].res
                /\ callers'[w].ran = 0]_vars

\* C9: a finished get_commit call either has the commit or a typed error:
\* InvalidId for a malformed identifier, NotFound for a well-formed one.
C9_TypedErrors ==
    \A c \in Callers :
        (callers[c].pc = "done" /\ callers[c].acc = "commits")
        => /\ callers[c].res.kind \in {"ok", "InvalidId", "NotFound"}
           /\ callers[c].id \notin Oids => callers[c].res.kind = "InvalidId"

\* C10: a get_readme call that ends while README.md is absent from the head
\* tree, for a repository whose README.md text an earlier call had returned
\* (and cached), ends with NotFound.
C10_ReadmeRemoved ==
    [][\A c \in Callers :
          (/\ callers'[c].pc = "done"
           /\ callers'[c] # callers[c]
           /\ callers'[c].acc = "readme_cache"
           /\ callers'[c].seen # NoEntry
           /\ readme[callers'[c].repo] = "absent")
          => callers'[c].res.kind = "NotFound"]_vars

\* What a computation run now returns for a repository's README.md.
ReadmeAsItIs(repo) ==
    IF readme[repo] \in Texts THEN [kind |-> "ok", val |-> readme[repo]]
    ELSE [kind |-> "panic", val |-> "none"]

\* C7: a call that finds an unexpired entry for its key returns the cached
\* value and starts no computation; a call made strictly after ts + TTL of
\* the entry it finds is not answered from the cache: it leads or joins a
\* computation, and what that computation hands out is README.md as it is
\* in the repository when the computation runs.
C7_TtlRefresh ==
    [][\A c \in Callers :
          /\ (CallStep(c) /\ callers'[c].acc = "readme_cache")
             => LET e == cache["readme_cache"][callers'[c].key]
                IN  /\ (e # NoEntry /\ now < e.ts + TTL)
                       => /\ callers'[c].pc = "done"
                          /\ callers'[c].res = [kind |-> "ok", val |-> e.val]
                          /\ callers'[c].ran = 0
                          /\ inflight' = inflight
                          /\ cache' = cache
                    /\ (e # NoEntry /\ now > e.ts + TTL)
                       => callers'[c].pc \in {"lead", "wait"}
          /\ (OutcomeStep(c) /\ callers[c].acc = "readme_cache")
             => /\ callers'[c].res = ReadmeAsItIs(callers[c].repo)
                /\ callers'[c].res.kind = "ok"
                   => cache'["readme_cache"][callers[c].key] =
                         [val |-> readme[callers[c].repo], ts |-> now]]_vars

\* C7 witness: one caller was answered from an entry it found (no
\* computation), another found an entry, ran the computation again and got a
\* text that differs from the one the entry held.
C7_Witness ==
    \E c, d \in Callers :
        /\ callers[c].pc = "done" /\ callers[c].seen # NoEntry
        /\ callers[c].ran = 1 /\ callers[c].res.kind = "ok"
        /\ callers[c].res.val # callers[c].seen.val
        /\ callers[d].pc = "done" /\ callers[d].seen # NoEntry
        /\ callers[d].ran = 0 /\ callers[d].res.val = callers[d].seen.val
        /\ readme[callers[d].repo] # callers[d].res.val

----------------------------------------------------------------------------
(* Properties of the revision walk *)

\* C2: along a chain of get_commits calls from offset 0, the pages returned
\* so far are a prefix of the unpaged walk; a call that reports no next
\* offset ends the chain with all the commits returned; a call that reports
\* one has moved past its own offset, to the number of commits returned so
\* far (so the chain ends).
C2_ChainYieldsAll ==
    gc.pc = "returned"
    => /\ Len(pages) <= Len(history)
       /\ pages = SubSeq(history, 1, Len(pages))
       /\ gc.next = None => pages = history
       /\ gc.next # None => (gc.next > gc.offset /\ gc.next = Len(pages))

----------------------------------------------------------------------------
(* Properties of the schema gate *)

MarkerOnly == [EmptyStore EXCEPT ![SchemaKey] = SCHEMA_VERSION]

\* C3: when open_db has returned the database of a store whose marker was
\* absent or different from SCHEMA_VERSION, the store holds the marker with
\* SCHEMA_VERSION and nothing else.
C3_StaleStoreReset ==
    (gate = "open"
        /\ (store0[SchemaKey] = "absent" \/ store0[SchemaKey] # SCHEMA_VERSION))
    => store = MarkerOnly

\* C3 witness: open_db has returned on a store that held marker "v1" and
\* data, and the store now holds the marker alone.
C3_Witness ==
    /\ gate = "open"
    /\ store0[SchemaKey] = "v1"
    /\ \A k \in DataKeys : store0[k] # "absent"
    /\ store = MarkerOnly

\* C4: a run of open_db on a store whose marker equals SCHEMA_VERSION never
\* clears or writes anything: past the read, the store is the one found.
C4_CurrentStoreUntouched ==
    (gate # "start" /\ store0[SchemaKey] = SCHEMA_VERSION)
    => (store = store0 /\ gate \in {"open", "failed"})

\* C4 witness: open_db has returned on a store with the current marker and
\* data under both data keys, all still there.
C4_Witness ==
    /\ gate = "open"
    /\ store0[SchemaKey] = SCHEMA_VERSION
    /\ \A k \in DataKeys : store0[k] # "absent"
    /\ store = store0

----------------------------------------------------------------------------
(* Properties of the indexer *)

\* C5: at most one run of indexer::run is in progress.
C5_OneRebuildAtATime == idx.active <= 1

\* C5 witness: a rebuild that a wake-up started is in progress while two
\* more wake-ups are buffered.
C5_Witness == idx.active = 1 /\ idx.started >= 2 /\ queue >= 2

\* C6: while the indexer thread lives, every wake-up enqueued is buffered,
\* about to start a rebuild, or has started one of its own, on top of the
\* rebuild at startup; and the n-th wake-up enqueued leads to the (n+1)-th
\* rebuild being finished, unless a rebuild panics and ends the thread.
C6_EachWakeRebuilt ==
    /\ [](worker # "dead"
            => idx.started + queue + (IF worker = "start" THEN 1 ELSE 0)
                  = idx.enqueued + 1)
    /\ \A n \in 1..MaxWakes :
          (idx.enqueued >= n) ~> (idx.finished >= n + 1 \/ worker = "dead")

\* C6 witness: every one of at least two wake-ups has had its rebuild, and
\* the thread is back at blocking_recv with nothing buffered.
C6_Witness ==
    /\ idx.enqueued >= 2
    /\ idx.finished = idx.enqueued + 1
    /\ worker = "waiting"
    /\ queue = 0

----------------------------------------------------------------------------
(* Properties of the metadata snapshot *)

\* C8: the directory scan runs at most once, and all the calls that have
\* returned hold the same snapshot.
C8_ScanOnce ==
    /\ scans <= 1
    /\ \A f, g \in Fetchers :
          (fetchers[f].pc = "done" /\ fetchers[g].pc = "done")
          => fetchers[f].snap = fetchers[g].snap

----------------------------------------------------------------------------
(* Properties of single pages of the revision walk *)

\* The commits that remain after skipping the probe's offset.
Remaining == IF probe.offset >= Len(history) THEN 0 ELSE Len(history) - probe.offset

\* The probe's call named a starting point that exists.
ProbeStarted == probe.pc # "idle" /\ probe.branch \in {"HEAD", "main"} /\ Len(history) > 0

\* C13: a get_commits call whose offset is at or beyond the number of commits
\* reachable from its starting point returns an empty page with no next
\* offset, and does not fail.
C13_PastTheEnd ==
    (ProbeStarted /\ probe.offset >= Len(history))
    => /\ probe.pc = "returned"
       /\ probe.page = <<>>
       /\ probe.next = None

C13_Witness ==
    /\ probe.pc = "returned"
    /\ Len(history) > 0
    /\ probe.offset = Len(history)
    /\ probe.page = <<>>

\* C14: with R commits remaining after the offset, a call returns exactly
\* AMOUNT commits and next offset = offset + AMOUNT when R > AMOUNT, and all R
\* commits and no next offset when R <= AMOUNT.
C14_PageShape ==
    ProbeStarted
    => /\ probe.pc = "returned"
       /\ Remaining > AMOUNT
            => /\ probe.page = SubSeq(history, probe.offset + 1, probe.offset + AMOUNT)
               /\ probe.next = probe.offset + AMOUNT
       /\ Remaining <= AMOUNT
            => /\ probe.page = SubSeq(history, probe.offset + 1, probe.offset + Remaining)
               /\ probe.next = None

----------------------------------------------------------------------------
(* Properties of the cache keys and of failed computations *)

\* C15: the commit cache is keyed by repository and id: a get_commit call for
\* a repository that does not contain the commit is never answered with a
\* commit, whatever another repository's entry for the same id holds.
C15_KeyedByRepo ==
    [][\A c \in Callers :
          (/\ callers'[c] # callers[c]
           /\ callers'[c].pc = "done"
           /\ callers'[c].acc = "commits"
           /\ callers'[c].key \notin objects[callers'[c].repo])
          => callers'[c].res.kind # "ok"]_vars

\* The step in which the computation led by c fails.
FailStep(c) ==
    /\ callers[c].pc = "lead"
    /\ callers'[c].pc = "done"
    /\ callers'[c].res.kind # "ok"

\* The step in which c enters or re-enters get_with.
EnterStep(c) ==
    \/ CallStep(c) /\ callers'[c].acc \in Accessors /\ callers'[c].key \in Keys
    \/ callers[c].pc = "retry" /\ callers'[c] # callers[c]

\* C16: a computation that fails for key k inserts nothing for k and leaves
\* nobody in flight; its waiters go round again; a caller that then finds no
\* unexpired entry and nobody in flight runs the computation itself, and a
\* computation whose source is readable succeeds.
C16_FailureNotCached ==
    [][\A c \in Callers :
          /\ FailStep(c) =>
                LET acc == callers[c].acc
                    k == callers[c].key
                IN  /\ cache'[acc][k] = cache[acc][k]
                    /\ cache'[acc][k] = NoEntry \/ cache'[acc][k].ts + TTL <= now'
                    /\ inflight'[acc][k] = 0
                    /\ \A w \in Callers \ {c} :
                          (callers[w].pc = "wait" /\ callers[w].acc = acc /\ callers[w].key = k)
                          => callers'[w].pc = "retry"
          /\ EnterStep(c) =>
                LET acc == callers'[c].acc
                    k == callers'[c].key
                IN  (/\ cache[acc][k] = NoEntry \/ cache[acc][k].ts + TTL <= now
                     /\ inflight[acc][k] = 0)
                    => callers'[c].pc = "lead" /\ inflight'[acc][k] = c
          /\ (callers[c].pc = "lead" /\ callers'[c].pc = "done"
              /\ callers[c].acc = "readme_cache" /\ readme[callers[c].repo] \in Texts)
             => callers'[c].res = [kind |-> "ok", val |-> readme[callers[c].repo]]]_vars

\* A caller that waited on a computation which failed, ran the computation
\* itself and succeeded.
C16_Witness ==
    \E c \in Callers :
        /\ callers[c].pc = "done"
        /\ callers[c].acc = "readme_cache"
        /\ callers[c].joined # 0
        /\ callers[c].ran = 1
        /\ callers[c].res.kind = "ok"

----------------------------------------------------------------------------
(* Properties of the wake-up channel and of the indexer thread's life *)

\* The indexer thread has ended, by break or by panic.
WorkerEnded == worker = "stopped" \/ worker = "dead"

\* C17: the wake-up channel never buffers more than 10 messages; with 10
\* buffered the sending task stays in its send until the thread has taken one
\* off; a send that completes towards a living thread has buffered its message.
C17_BoundedNoDrop ==
    /\ [](queue <= WakeupCapacity)
    /\ [][(coord = "sending" /\ ~WorkerEnded)
          => /\ queue = WakeupCapacity
                  => coord' # "racing" /\ idx'.enqueued = idx.enqueued
             /\ coord' = "racing"
                  => /\ queue' = queue + 1
                     /\ idx'.enqueued = idx.enqueued + 1
                     /\ idx'.errors = idx.errors]_vars

\* The channel is full again after the thread made room, with the next
\* wake-up waiting in its send.
C17_Witness ==
    /\ queue = WakeupCapacity
    /\ coord = "sending"
    /\ idx.enqueued > WakeupCapacity
    /\ ~WorkerEnded

\* C18: the thread starts a rebuild first: until the first rebuild has begun
\* nothing has been taken off the channel, and the first rebuild does begin,
\* whether or not any wake-up ever arrives.
C18_FirstRebuildUnprompted ==
    /\ [](idx.started = 0 => worker = "start" /\ queue = idx.enqueued)
    /\ <>(idx.started >= 1)

\* The first rebuild has begun with refresh disabled and no signal received.
C18_Witness ==
    /\ idx.started = 1
    /\ refresh = "never"
    /\ idx.wakes = 0
    /\ idx.enqueued = 0

\* C19: once the thread has ended, every send attempt fails and is reported,
\* the sending task goes back to its select!, and no rebuild starts.
C19_SendFailsAfterEnd ==
    [][WorkerEnded
       => /\ worker' = worker
          /\ idx'.started = idx.started
          /\ queue' = queue
          /\ (coord = "sending" /\ coord' # "sending" /\ coord' # "gone")
                => /\ coord' = "racing"
                   /\ idx'.errors = idx.errors + 1
                   /\ idx'.enqueued = idx.enqueued]_vars

\* Two wake-ups were reported as failed after the thread died, and the task
\* is racing again.
C19_Witness ==
    /\ worker = "dead"
    /\ idx.errors >= 2
    /\ coord = "racing"

----------------------------------------------------------------------------
(* Properties of the uncached accessor *)

\* C12: get_latest_commit answers with the commit HEAD points to when its
\* closure runs, whatever earlier calls returned, however much time passed and
\* whatever the caches hold, and neither of its steps touches a cache.
C12_LatestUncached ==
    [][\A c \in Callers :
          /\ (CallStep(c) /\ callers'[c].acc = "latest")
                => /\ callers'[c].pc = "blocking"
                   /\ cache' = cache
                   /\ inflight' = inflight
          /\ (callers[c].pc = "blocking" /\ callers'[c].pc = "done")
                => /\ cache' = cache
                   /\ inflight' = inflight
                   /\ head[callers[c].repo] \in HeadCommits
                        => callers'[c].res = [kind |-> "ok", val |-> head[callers[c].repo]]]_vars

\* HEAD has moved to c2 and a call returned c2 while the commit cache held an
\* unexpired c1 and the other task's earlier call had returned c1.
C12_Witness ==
    \E c, d \in Callers :
        /\ callers[c].pc = "done" /\ callers[c].acc = "latest"
        /\ callers[c].res = [kind |-> "ok", val |-> "c2"]
        /\ callers[d].pc = "done" /\ callers[d].acc = "latest"
        /\ callers[d].res = [kind |-> "ok", val |-> "c1"]
        /\ cache["commits"]["c1"] # NoEntry
        /\ now < cache["commits"]["c1"].ts + TTL

----------------------------------------------------------------------------
(* Properties of the directory scan *)

\* p is a repository, and every directory above it is a plain directory.
ReachableRepo(p) ==
    /\ fs[p] = "repo"
    /\ Len(p) > 1 => fs[ParentOf(p)] = "ns"

\* The one entry p is to be recorded as: under its parent's path, or under
\* the absent key at top level.
EntryOf(p) ==
    [key |-> IF Len(p) = 1 THEN [some |-> FALSE, path |-> <<>>]
             ELSE [some |-> TRUE, path |-> ParentOf(p)],
     name |-> p[Len(p)]]

\* The result holds each repository reachable through non-repository
\* directories exactly once, under its parent directory's path relative to the
\* root (the absent key at top level), and nothing else: nothing below a
\* recorded repository, and no repository under a second key.
GroupedAsClaimed ==
    /\ \A p \in Dirs :
          CopiesIn(EntryOf(p), scanned.repos) = IF ReachableRepo(p) THEN 1 ELSE 0
    /\ BagToSet(scanned.repos) \subseteq {EntryOf(p) : p \in Dirs}

\* A scan that returns has grouped as claimed.
GroupedWhenReturned == scanned.pc = "done" => GroupedAsClaimed

\* C11: for any directory tree under the root, the scan records each
\* repository reachable through non-repository directories exactly once, under
\* its parent directory's relative path, and nothing below a repository.
C11_GroupedOnce ==
    scanned.pc # "idle" => scanned.pc = "done" /\ GroupedAsClaimed

\* No directory above p failed, nor p itself.
OutsideFailure(p) ==
    /\ fs[p] \notin {"locked", "badrepo"}
    /\ Len(p) > 1 => fs[ParentOf(p)] \notin {"locked", "badrepo"}

\* C20: a failure in one directory or repository skips that subtree only: the
\* scan completes and its result holds every repository outside the failed
\* subtrees.
C20_FailureIsolated ==
    scanned.pc # "idle"
    => /\ scanned.pc = "done"
       /\ \A p \in Dirs :
             (ReachableRepo(p) /\ OutsideFailure(p))
             => CopiesIn(EntryOf(p), scanned.repos) = 1

----------------------------------------------------------------------------
(* Properties of interrupted and repeated runs of the schema gate *)

\* C21: however many runs of open_db were cut short, a run that finds the
\* marker absent or stale goes on to reset; whenever the marker equals
\* SCHEMA_VERSION on a store first found under another marker, no other key
\* remains, so a completed run leaves the marker current and nothing older;
\* and on a store whose marker is current no run changes anything.
C21_InterruptionSafe ==
    /\ []((store[SchemaKey] = SCHEMA_VERSION /\ origin[SchemaKey] # SCHEMA_VERSION)
            => store = MarkerOnly)
    /\ [](gate = "open" => store[SchemaKey] = SCHEMA_VERSION)
    /\ [][(gate = "start" /\ store[SchemaKey] # SCHEMA_VERSION /\ gate' \notin {"start", "failed"})
            => gate' = "regen"]_vars
    /\ [][store[SchemaKey] = SCHEMA_VERSION => store' = store]_vars

\* A store first found with marker "v1" and data; a run cleared it and ended
\* before writing the marker; the next run found the store empty and has
\* completed, leaving the marker alone.
C21_Witness ==
    /\ gate = "open"
    /\ origin[SchemaKey] = "v1"
    /\ \A k \in DataKeys : origin[k] # "absent"
    /\ store0 = EmptyStore
    /\ store = MarkerOnly

\* A completed run has been repeated on the store it left.
C21_RepeatWitness ==
    /\ gate = "open"
    /\ origin[SchemaKey] = "v1"
    /\ store0 = MarkerOnly
    /\ store = MarkerOnly

====
